---- MODULE Spec2Model ----
(***************************************************************************)
(* Differentiable categorisation (GATO): the hardening / ordering step     *)
(* assign_bins_and_order of diffcat_optimizer/plotting_utils.py, the       *)
(* forward pass GATO_2D.call of the 2-D soft-max example and the 1-D       *)
(* boundary handling of the toy examples.                                  *)
(*                                                                         *)
(* Real numbers are fixed-point integers: positions, probabilities and     *)
(* logarithms are in units of 1/One.  Like float32 the representation has  *)
(* finite precision, so exp underflows to 0 and sigmoid saturates.         *)
(***************************************************************************)
EXTENDS Integers, Sequences, FiniteSets, TLC

VARIABLES model, data, tieBreak, ret, calls, reduceArg, fwd,
          raw_boundaries, steepness, xs, memberships, boundaries_,
          pc, gato_binning_options, nbins, lam, epoch, loss, regularisation,
          total_loss, best_loss, no_improvement_count, best_weights,
          loss_history, optimized_significances, lamY, lamU, penY, penU,
          S_vals, B_vals, Z_bins, Z_overall,
          regularisation_history, boundary_history

vars == <<model, data, tieBreak, ret, calls, reduceArg, fwd,
          raw_boundaries, steepness, xs, memberships, boundaries_,
          pc, gato_binning_options, nbins, lam, epoch, loss, regularisation,
          total_loss, best_loss, no_improvement_count, best_weights,
          loss_history, optimized_significances, lamY, lamU, penY, penU,
          S_vals, B_vals, Z_bins, Z_overall,
          regularisation_history, boundary_history>>

ndVars == <<model, data, tieBreak, ret, calls, reduceArg, fwd>>
oneDVars == <<raw_boundaries, steepness, xs, memberships, boundaries_>>

(* The locals of compute_significance.                                     *)
sigVars == <<S_vals, B_vals, Z_bins, Z_overall>>

(* The histories main() keeps next to loss_history.                        *)
histVars == <<regularisation_history, boundary_history>>

(* The locals of the optimisation loop of main(); lamY, lamU, penY and     *)
(* penU are those of the 2-D train_step.                                   *)
loopVars == <<pc, gato_binning_options, nbins, lam, epoch, loss,
              regularisation, total_loss, best_loss, no_improvement_count,
              best_weights, loss_history, optimized_significances,
              lamY, lamU, penY, penU, sigVars, histVars>>

stepVars == <<lamY, lamU, penY, penU>>

---------------------------------------------------------------------------
(* Bounds of the model.                                                    *)
MaxCats == 3
MaxEvents == 2
MaxWeight == 2

(* Fixed-point unit: the integer One stands for 1.0.                       *)
One == 10 * 10 * 10

---------------------------------------------------------------------------
(* Generic helpers on sequences.                                           *)
RECURSIVE SumOver(_, _)
SumOver(f, S) == IF S = {} THEN 0
                 ELSE LET i == CHOOSE j \in S : TRUE
                      IN  f[i] + SumOver(f, S \ {i})

(* Sum and maximum of the values of a function with a finite domain.       *)
SumFn(f) == SumOver(f, DOMAIN f)

MaxFn(f) == CHOOSE m \in {f[i] : i \in DOMAIN f} : \A i \in DOMAIN f : f[i] <= m

Range(f) == {f[i] : i \in DOMAIN f}

(* An array held as a table of its values (evaluated once).               *)
Table(f) == CHOOSE v \in {f} : v = v

(* Python's range(n).                                                      *)
Bins(n) == 0 .. (n - 1)

---------------------------------------------------------------------------
(* Fixed-point numerics standing for the float32 kernels of the host       *)
(* numeric library.                                                        *)

(* e^(-j/2) in units of 1/One, by repeated multiplication with e^(-1/2);   *)
(* reaches 0 (underflow) after finitely many steps.                        *)
RECURSIVE ExpKnot(_)
ExpKnot(j) == IF j = 0 THEN One
              ELSE IF j > 20 THEN 0
              ELSE (ExpKnot(j - 1) * 607) \div 1000

(* e^(-z) for z >= 0 (z in units of 1/One): linear interpolation between   *)
(* the knots, monotonically non-increasing in z.                           *)
ExpNeg(z) ==
    LET h  == One \div 2
        k  == z \div h
        f  == z % h
        lo == ExpKnot(k)
        hi == ExpKnot(k + 1)
    IN  lo - ((lo - hi) * f) \div h

(* Natural logarithm of v > 0 (v in units of 1/One), result in units of    *)
(* 1/One: exact at powers of two (ln 2 = 0.693), chords in between.        *)
RECURSIVE Ln(_)
Ln(v) == IF v >= 2 * One THEN 693 + Ln(v \div 2)
         ELSE IF v < One THEN Ln(2 * v) - 693
         ELSE ((v - One) * 693) \div One

(* floor(sqrt(n)) by bisection.                                            *)
RECURSIVE IsqrtBS(_, _, _)
IsqrtBS(n, lo, hi) ==
    IF lo >= hi THEN lo
    ELSE LET mid == (lo + hi + 1) \div 2
         IN  IF mid * mid <= n THEN IsqrtBS(n, mid, hi)
             ELSE IsqrtBS(n, lo, mid - 1)

Isqrt(n) == IsqrtBS(n, 0, 40000)

(* tf.nn.softmax over the last axis of a vector of logits.                 *)
Softmax(v) ==
    LET m == MaxFn(v)
        e == Table([i \in DOMAIN v |-> ExpNeg(m - v[i])])
        s == SumFn(e)
    IN  Table([i \in DOMAIN v |-> (e[i] * One) \div s])

(* tf.nn.log_softmax.                                                      *)
LogSoftmax(v) ==
    LET m   == MaxFn(v)
        e   == Table([i \in DOMAIN v |-> ExpNeg(m - v[i])])
        lse == m + Ln(SumFn(e))
    IN  Table([i \in DOMAIN v |-> v[i] - lse])

(* tf.sigmoid: 1/(1+e^(-z)); saturates to exactly 1.0 once e^(-z) is below *)
(* the precision of the representation, as float32 does.                   *)
Sigmoid(z) ==
    IF z >= 0 THEN (One * One) \div (One + ExpNeg(z))
    ELSE (ExpNeg(-z) * One) \div (One + ExpNeg(-z))

---------------------------------------------------------------------------
(* The trained N-D mixture model (GATO_2D) and the per-process samples.    *)

(* GATO_2D works in two dimensions.                                        *)
dim == 2

(* The temperature main() constructs the model with (0.5), in 1/One.       *)
temperature == 500

(* ln(2*pi) in units of 1/One.                                             *)
Log2Pi == 1838

(* Raw (pre-activation) values a trained mean coordinate may take, the     *)
(* step between the logits of consecutive components (flat or rising       *)
(* mixture weights), and the effective Cholesky factors.                   *)
MeanVals == {-2 * One, 2 * One}
LogitSteps == {0, One}
ScaleTrils == { << <<500, 0>>, <<0, 500>> >> }

MeanVecs == [1 .. dim -> MeanVals]

Models ==
    UNION { [n_cats : {n},
             mixture_logits : {[i \in Bins(n) |-> i * s] : s \in LogitSteps},
             means : [Bins(n) -> MeanVecs],
             scale_tril : [Bins(n) -> ScaleTrils]] : n \in 1 .. MaxCats }

(* Process names of the sample mapping, discriminant values (first two     *)
(* soft-max coordinates) and event weights.                                *)
ProcNames == {"signal1", "bkg1"}
XGrid == { <<100, 100>>, <<800, 100>>, <<100, 800>> }
Weights == 1 .. MaxWeight
Events == [NN_output : XGrid, weight : Weights]

(* proc.startswith("signal")                                               *)
StartsWithSignal(proc) ==
    /\ Len(proc) >= Len("signal")
    /\ SubSeq(proc, 1, Len("signal")) = "signal"

TotalEvents(d) == SumFn([p \in DOMAIN d |-> Len(d[p])])

(* model.get_scale_tril(): the lower-triangular factors, diagonal > 0.     *)
get_scale_tril(m) == m.scale_tril

(* A hardener that ignores reduce and always takes softmax(means): the     *)
(* locations then differ from the forward pass's, which C6 detects.        *)
HardenLocsIgnoreReduce(m, reduce) ==
    Table([i \in Bins(m.n_cats) |-> Softmax(m.means[i])])

(* A hardener that, with reduce, drops the first column of the soft-max    *)
(* instead of the last, which C29 detects.                                 *)
HardenLocsDropFirst(m, reduce) ==
    Table([i \in Bins(m.n_cats) |->
        IF reduce
        THEN LET full_logits == m.means[i] \o <<0>>
                 probs3 == Softmax(full_logits)
             IN  [d \in 1 .. dim |-> probs3[d + 1]]
        ELSE Softmax(m.means[i])])

(* Component locations used by assign_bins_and_order.                      *)
HardenLocs(m, reduce) ==
    Table([i \in Bins(m.n_cats) |->
        IF reduce
        THEN LET full_logits == m.means[i] \o <<0>>
                 probs3 == Softmax(full_logits)
             IN  [d \in 1 .. dim |-> probs3[d]]
        ELSE Softmax(m.means[i])])

(* tfd.MultivariateNormalTriL(loc, scale_tril).log_prob(x) for dim = 2:    *)
(* forward substitution z = L^-1 (x - loc), then                           *)
(* -|z|^2/2 - sum(log diag L) - (dim/2) log(2 pi).                         *)
LogProb(x, loc, L) ==
    LET d0   == x[1] - loc[1]
        d1   == x[2] - loc[2]
        z0   == (d0 * One) \div L[1][1]
        z1   == ((d1 - (L[2][1] * z0) \div One) * One) \div L[2][2]
        quad == (z0 * z0 + z1 * z1) \div One
    IN  0 - (quad \div 2) - (Ln(L[1][1]) + Ln(L[2][2])) - (dim * Log2Pi) \div 2

(* log_joint of one event: log_probs + log_mix, per component.             *)
LogJoint(log_mix, locs, scale_tril, x) ==
    Table([i \in DOMAIN locs |->
              LogProb(x, locs[i], scale_tril[i]) + log_mix[i]])

(* tf.argmax: the first index holding the maximum.                         *)
ArgMax(v) ==
    CHOOSE i \in DOMAIN v :
        /\ \A k \in DOMAIN v : v[k] <= v[i]
        /\ \A k \in DOMAIN v : v[k] = v[i] => i <= k

(* Raw hard assignment of every event of one process.                      *)
RawAssignments(m, df, reduce) ==
    LET log_mix    == LogSoftmax(m.mixture_logits)
        scale_tril == get_scale_tril(m)
        locs       == HardenLocs(m, reduce)
    IN  Table([e \in DOMAIN df |->
                  ArgMax(LogJoint(log_mix, locs, scale_tril, df[e].NN_output))])

(* A yield sum whose mask is (assignments <= i), so that an event is       *)
(* counted in its bin and in every later one, which C24 detects.           *)
YieldSumCumulative(df, assignments, i) ==
    SumFn([e \in DOMAIN df |-> IF assignments[e] <= i THEN df[e].weight ELSE 0])

(* weights[mask].sum() for mask = (assignments == i).                      *)
YieldSum(df, assignments, i) ==
    SumFn([e \in DOMAIN df |-> IF assignments[e] = i THEN df[e].weight ELSE 0])

(* The raw assignments of every non-empty process (empty ones are skipped). *)
AllRawAssignments(m, d, reduce) ==
    Table([p \in {q \in DOMAIN d : d[q] # << >>} |->
              RawAssignments(m, d[p], reduce)])

(* S_yields / B_yields after the loop over the non-empty processes.        *)
S_yields(n_cats, d, assign) ==
    Table([i \in Bins(n_cats) |->
        SumFn([p \in {q \in DOMAIN assign : StartsWithSignal(q)} |->
                  YieldSum(d[p], assign[p], i)])])

B_yields(n_cats, d, assign) ==
    Table([i \in Bins(n_cats) |->
        SumFn([p \in {q \in DOMAIN assign : ~StartsWithSignal(q)} |->
                  YieldSum(d[p], assign[p], i)])])

(* float("inf"), and the float NaN (a value outside the fixed-point        *)
(* range).                                                                 *)
Inf == 1000000000
NaN == 0 - Inf

IsNaN(v) == v = NaN

(* eps = 1e-6, in units of 1e-6.                                           *)
eps == 1

(* A significance without eps in the denominator: a bin without            *)
(* background divides by zero, which C25 detects.                          *)
SignificanceWithoutEps(S, B) ==
    IF B = 0 THEN (IF S = 0 THEN NaN ELSE Inf)
    ELSE (S * 100 * One * One) \div (Isqrt(B * One * One) * One)

(* significances = S / (sqrt(B) + eps), in units of 1/100; the denominator *)
(* is kept in units of 1e-6.                                               *)
Significance(S, B) ==
    (S * 100 * One * One) \div (Isqrt(B * One * One) * One + eps)

Significances(S, B) ==
    Table([i \in DOMAIN S |-> Significance(S[i], B[i])])

(* np.argsort(significances): ascending; the position of equal keys is an  *)
(* implementation detail of the sort kernel of the build (tb).             *)
TieBreaks == {"lowFirst", "highFirst"}

(* An argsort that gives tied bins the same position: the result repeats   *)
(* one of the tied bins and drops the others, which C1 detects.            *)
ArgSortCollapseTies(sig, tb) ==
    LET Below(i) == Cardinality({k \in DOMAIN sig : sig[k] < sig[i]})
    IN  Table([j \in DOMAIN sig |->
            CHOOSE i \in DOMAIN sig :
                /\ Below(i) <= j
                /\ \A k \in DOMAIN sig : Below(k) <= j => Below(k) <= Below(i)
                /\ \A k \in DOMAIN sig : Below(k) = Below(i) => i <= k])

(* An argsort in descending order, which C3 detects.                       *)
ArgSortDescending(sig, tb) ==
    LET Before(k, i) == \/ sig[k] > sig[i]
                        \/ /\ sig[k] = sig[i]
                           /\ IF tb = "lowFirst" THEN k < i ELSE k > i
        Rank(i) == Cardinality({k \in DOMAIN sig : Before(k, i)})
    IN  Table([j \in DOMAIN sig |-> CHOOSE i \in DOMAIN sig : Rank(i) = j])

ArgSort(sig, tb) ==
    LET Before(k, i) == \/ sig[k] < sig[i]
                        \/ /\ sig[k] = sig[i]
                           /\ IF tb = "lowFirst" THEN k < i ELSE k > i
        Rank(i) == Cardinality({k \in DOMAIN sig : Before(k, i)})
    IN  Table([j \in DOMAIN sig |-> CHOOSE i \in DOMAIN sig : Rank(i) = j])

(* A mapping that leaves every raw bin where it is, so that labels are     *)
(* never relabelled, which C4 detects.                                     *)
new_order_mapping_identity(order) ==
    Table([orig \in Range(order) |-> orig])

(* {orig: new for new, orig in enumerate(order)} (a later entry wins).     *)
new_order_mapping(order) ==
    Table([orig \in Range(order) |->
        CHOOSE new \in DOMAIN order :
            /\ order[new] = orig
            /\ \A k \in DOMAIN order : order[k] = orig => k <= new])

(* An inverse mapping that forgets to swap keys and values, which C2       *)
(* detects.                                                                *)
inv_mapping_unswapped(nom) == nom

(* {v: k for k, v in new_order_mapping.items()}                            *)
inv_mapping(nom) ==
    Table([v \in Range(nom) |-> CHOOSE k \in DOMAIN nom : nom[k] = v])

NoRet == [status |-> "none", bin_assignments |-> << >>, order |-> << >>,
          significances |-> << >>, inv_mapping |-> << >>]

(* assign_bins_and_order(model, data, reduce): the returned tuple, or the   *)
(* ValueError np.vectorize raises on a size-0 array (no otypes set) when    *)
(* the remap loop meets the empty array stored for an empty process, or the *)
(* KeyError of looking up a raw bin that new_order_mapping does not hold.   *)
assign_bins_and_order(m, d, reduce, tb) ==
    LET orig_assign == AllRawAssignments(m, d, reduce)
        S     == S_yields(m.n_cats, d, orig_assign)
        B     == B_yields(m.n_cats, d, orig_assign)
        significances == Significances(S, B)
        order == ArgSort(significances, tb)
        nom   == new_order_mapping(order)
    IN  IF \E p \in DOMAIN d : d[p] = << >>
        THEN [NoRet EXCEPT !.status = "ValueError"]
        ELSE IF \E p \in DOMAIN d : \E e \in DOMAIN d[p] :
                    orig_assign[p][e] \notin DOMAIN nom
        THEN [NoRet EXCEPT !.status = "KeyError"]
        ELSE [status |-> "ok",
              bin_assignments |->
                  [p \in DOMAIN d |->
                      [e \in DOMAIN d[p] |-> nom[orig_assign[p][e]]]],
              order |-> order,
              significances |-> significances,
              inv_mapping |-> inv_mapping(nom)]

---------------------------------------------------------------------------
(* The forward pass GATO_2D.call of the 2-D example.                       *)

(* locs = softmax(means with one appended zero logit)[:, :dim]             *)
CallLocs(m) ==
    Table([i \in Bins(m.n_cats) |->
        LET full_logits == m.means[i] \o <<0>>
            probs3 == Softmax(full_logits)
        IN  [d \in 1 .. dim |-> probs3[d]]])

(* Responsibilities without the softmax normalisation: exp of the scaled   *)
(* log joint relative to its maximum, which C9 detects.                    *)
ResponsibilitiesUnnormalised(log_joint, T) ==
    LET z == Table([i \in DOMAIN log_joint |-> (log_joint[i] * One) \div T])
        m == MaxFn(z)
    IN  Table([i \in DOMAIN z |-> ExpNeg(m - z[i])])

(* gamma = softmax((lp + log_mix) / temperature, axis=1) for one event.    *)
Responsibilities(log_joint, T) ==
    Softmax(Table([i \in DOMAIN log_joint |-> (log_joint[i] * One) \div T]))

(* gamma of every event of one process: events x components.               *)
Gamma(m, df, T) ==
    LET log_mix    == LogSoftmax(m.mixture_logits)
        scale_tril == get_scale_tril(m)
        locs       == CallLocs(m)
    IN  Table([e \in DOMAIN df |->
            Responsibilities(
                LogJoint(log_mix, locs, scale_tril, df[e].NN_output), T)])

(* y = reduce_sum(gamma * w[:,None], axis=0), with w or w**2.              *)
SoftYield(df, gamma, n_cats, squared) ==
    Table([i \in Bins(n_cats) |->
        SumFn([e \in DOMAIN df |->
            gamma[e][i] * (IF squared THEN df[e].weight * df[e].weight
                           ELSE df[e].weight)])])

(* Sum over the processes in P of their per-bin yields.                    *)
ClassYield(d, gammas, n_cats, P, squared) ==
    Table([i \in Bins(n_cats) |->
        SumFn([p \in P |-> SoftYield(d[p], gammas[p], n_cats, squared)[i]])])

(* asymptotic_significance(S, B): the Asimov formula                       *)
(* sqrt(2[(S+B) ln(1+S/B) - S]) with B floored; here its square.           *)
AsimovZ2(S, B) ==
    LET Bf    == IF B < 1 THEN 1 ELSE B
        ratio == (S * One) \div Bf
        z2    == 2 * ((((S + Bf) * Ln(One + ratio)) \div One) - S)
    IN  IF z2 < 0 THEN 0 ELSE z2

(* sqrt(reduce_sum(asymptotic_significance(S, B)**2))                      *)
TotalZ(S, B) == Isqrt(SumFn([i \in DOMAIN S |-> AsimovZ2(S[i], B[i])]) * One)

NoFwd == [status |-> "none", gamma |-> << >>, sig1_y |-> << >>,
          sig2_y |-> << >>, loss |-> 0, bkg_y |-> << >>, bkg_w2 |-> << >>]

(* A forward pass whose per-signal significances ignore the other signal  *)
(* in the background, which C13 detects.                                   *)
GATO_2D_call_bkg_only(m, d) ==
    LET n      == m.n_cats
        gammas == Table([p \in DOMAIN d |-> Gamma(m, d[p], temperature)])
        sig1_y == ClassYield(d, gammas, n, DOMAIN d \cap {"signal1"}, FALSE)
        sig2_y == ClassYield(d, gammas, n, DOMAIN d \cap {"signal2"}, FALSE)
        bkg_y  == ClassYield(d, gammas, n, DOMAIN d \ {"signal1", "signal2"}, FALSE)
        bkg_w2 == ClassYield(d, gammas, n, DOMAIN d \ {"signal1", "signal2"}, TRUE)
        Z1 == TotalZ(sig1_y, bkg_y)
        Z2 == TotalZ(sig2_y, bkg_y)
    IN  [status |-> "ok", gamma |-> gammas, sig1_y |-> sig1_y, sig2_y |-> sig2_y,
         loss |-> 0 - Isqrt(Z1 * Z2), bkg_y |-> bkg_y, bkg_w2 |-> bkg_w2]

(* A forward pass that returns the yields and squared weights of all       *)
(* processes, signals included, for the penalties, which C27 detects.      *)
GATO_2D_call_all_in_bkg(m, d) ==
    LET n      == m.n_cats
        gammas == Table([p \in DOMAIN d |-> Gamma(m, d[p], temperature)])
        sig1_y == ClassYield(d, gammas, n, DOMAIN d \cap {"signal1"}, FALSE)
        sig2_y == ClassYield(d, gammas, n, DOMAIN d \cap {"signal2"}, FALSE)
        bkg_y  == ClassYield(d, gammas, n, DOMAIN d \ {"signal1", "signal2"}, FALSE)
        all_y  == ClassYield(d, gammas, n, DOMAIN d, FALSE)
        all_w2 == ClassYield(d, gammas, n, DOMAIN d, TRUE)
        Z1 == TotalZ(sig1_y, Table([i \in Bins(n) |-> bkg_y[i] + sig2_y[i]]))
        Z2 == TotalZ(sig2_y, Table([i \in Bins(n) |-> bkg_y[i] + sig1_y[i]]))
    IN  [status |-> "ok", gamma |-> gammas, sig1_y |-> sig1_y, sig2_y |-> sig2_y,
         loss |-> 0 - Isqrt(Z1 * Z2), bkg_y |-> all_y, bkg_w2 |-> all_w2]

(* GATO_2D.call(data_dict): returns loss, bkg_y, bkg_w2 (gamma and the      *)
(* signal yields are kept as diagnostics).                                  *)
GATO_2D_call(m, d) ==
    LET n      == m.n_cats
        gammas == Table([p \in DOMAIN d |-> Gamma(m, d[p], temperature)])
        sig1_y == ClassYield(d, gammas, n, DOMAIN d \cap {"signal1"}, FALSE)
        sig2_y == ClassYield(d, gammas, n, DOMAIN d \cap {"signal2"}, FALSE)
        bkg_y  == ClassYield(d, gammas, n, DOMAIN d \ {"signal1", "signal2"}, FALSE)
        bkg_w2 == ClassYield(d, gammas, n, DOMAIN d \ {"signal1", "signal2"}, TRUE)
        Z1 == TotalZ(sig1_y, Table([i \in Bins(n) |-> bkg_y[i] + sig2_y[i]]))
        Z2 == TotalZ(sig2_y, Table([i \in Bins(n) |-> bkg_y[i] + sig1_y[i]]))
    IN  [status |-> "ok", gamma |-> gammas, sig1_y |-> sig1_y, sig2_y |-> sig2_y,
         loss |-> 0 - Isqrt(Z1 * Z2), bkg_y |-> bkg_y, bkg_w2 |-> bkg_w2]

---------------------------------------------------------------------------
(* The hardening state machine: the caller builds the sample mapping, then *)
(* calls assign_bins_and_order on it.                                      *)

OneDIdle ==
    /\ raw_boundaries = << >>
    /\ steepness = 0
    /\ xs = << >>
    /\ memberships = << >>
    /\ boundaries_ = << >>

HistIdle ==
    /\ regularisation_history = << >>
    /\ boundary_history = << >>

(* compute_significance has not been called.                               *)
SigIdle ==
    /\ S_vals = << >>
    /\ B_vals = << >>
    /\ Z_bins = << >>
    /\ Z_overall = 0

(* main() has not reached its optimisation loop.                           *)
LoopIdle ==
    /\ pc = "idle"
    /\ gato_binning_options = << >>
    /\ nbins = 0
    /\ lam = 0
    /\ epoch = 0
    /\ loss = 0
    /\ regularisation = 0
    /\ total_loss = 0
    /\ best_loss = 0
    /\ no_improvement_count = 0
    /\ best_weights = << >>
    /\ loss_history = << >>
    /\ optimized_significances = << >>
    /\ lamY = 0
    /\ lamU = 0
    /\ penY = 0
    /\ penU = 0
    /\ SigIdle
    /\ HistIdle

Init ==
    /\ model \in Models
    /\ data = << >>
    /\ tieBreak \in TieBreaks
    /\ ret = NoRet
    /\ calls = 0
    /\ reduceArg = FALSE
    /\ fwd = NoFwd
    /\ OneDIdle
    /\ LoopIdle

(* The caller adds a process with an empty event table.                    *)
AddProcess(p) ==
    /\ calls = 0
    /\ p \notin DOMAIN data
    /\ data' = [q \in DOMAIN data \cup {p} |-> IF q = p THEN << >> ELSE data[q]]
    /\ UNCHANGED <<model, tieBreak, ret, calls, reduceArg, fwd>>
    /\ UNCHANGED oneDVars
    /\ UNCHANGED loopVars

(* The caller appends one event to the table of process p.                 *)
AddEvent(p, ev) ==
    /\ calls = 0
    /\ TotalEvents(data) < MaxEvents
    /\ data' = [q \in DOMAIN data \cup {p} |->
                   IF q = p
                   THEN (IF p \in DOMAIN data THEN data[p] ELSE << >>) \o <<ev>>
                   ELSE data[q]]
    /\ UNCHANGED <<model, tieBreak, ret, calls, reduceArg, fwd>>
    /\ UNCHANGED oneDVars
    /\ UNCHANGED loopVars

(* A call that leaves the normalised mixture weights in the model and the  *)
(* hardened bin in place of each event's weight, which C30 detects.        *)
HardenInPlace(reduce) ==
    /\ calls = 0
    /\ ret' = assign_bins_and_order(model, data, reduce, tieBreak)
    /\ reduceArg' = reduce
    /\ calls' = 1
    /\ model' = [model EXCEPT !.mixture_logits = LogSoftmax(@)]
    /\ data' = [p \in DOMAIN data |->
                   [e \in DOMAIN data[p] |->
                       [data[p][e] EXCEPT !.weight =
                           AllRawAssignments(model, data, reduce)[p][e]]]]
    /\ UNCHANGED <<tieBreak, fwd>>
    /\ UNCHANGED oneDVars
    /\ UNCHANGED loopVars

(* The call assign_bins_and_order(model, data, reduce).                    *)
Harden(reduce) ==
    /\ calls = 0
    /\ ret' = assign_bins_and_order(model, data, reduce, tieBreak)
    /\ reduceArg' = reduce
    /\ calls' = 1
    /\ UNCHANGED <<model, data, tieBreak, fwd>>
    /\ UNCHANGED oneDVars
    /\ UNCHANGED loopVars

Next ==
    \/ \E p \in ProcNames : AddProcess(p)
    \/ \E p \in ProcNames, ev \in Events : AddEvent(p, ev)
    \/ \E reduce \in BOOLEAN : Harden(reduce)

Spec == Init /\ [][Next]_vars

---------------------------------------------------------------------------
(* The forward-pass state machine: the caller builds the sample mapping    *)
(* and runs one forward pass of the objective on it.                       *)

InitCall ==
    /\ model \in Models
    /\ data = << >>
    /\ tieBreak = "lowFirst"
    /\ ret = NoRet
    /\ calls = 0
    /\ reduceArg = FALSE
    /\ fwd = NoFwd
    /\ OneDIdle
    /\ LoopIdle

Call ==
    /\ calls = 0
    /\ fwd' = GATO_2D_call(model, data)
    /\ calls' = 1
    /\ UNCHANGED <<model, data, tieBreak, ret, reduceArg>>
    /\ UNCHANGED oneDVars
    /\ UNCHANGED loopVars

NextCall ==
    \/ \E p \in ProcNames : AddProcess(p)
    \/ \E p \in ProcNames, ev \in Events : AddEvent(p, ev)
    \/ Call

SpecCall == InitCall /\ [][NextCall]_vars

---------------------------------------------------------------------------
(* The 1-D boundary model of the toy example                               *)
(* (one_dimensional_binning_optimiser).                                    *)

(* Raw boundary values an optimizer update may produce (20.0 is beyond the *)
(* point where float32 sigmoid rounds to 1.0), steepness settings and      *)
(* discriminant values.                                                    *)
RawVals == {0 - One, 0, One, 20 * One}
Steepnesses == {5, 500}
XVals == {100, 400, 600, 900}

RawBoundaryVecs == UNION { [1 .. k -> RawVals] : k \in 1 .. (MaxCats - 1) }

(* Insert v into the ascending sequence s.                                 *)
RECURSIVE Insert(_, _)
Insert(v, s) == IF s = << >> THEN <<v>>
                ELSE IF v <= Head(s) THEN <<v>> \o s
                ELSE <<Head(s)>> \o Insert(v, Tail(s))

RECURSIVE SortFrom(_, _)
SortFrom(s, acc) == IF s = << >> THEN acc
                    ELSE SortFrom(Tail(s), Insert(Head(s), acc))

(* A sort that leaves the sequence as it is, which C8 detects.             *)
TfSortNone(s) == s

(* tf.sort: ascending.                                                     *)
TfSort(s) == SortFrom(s, << >>)

(* tf.sort(tf.sigmoid(raw_boundaries)): the effective boundaries.          *)
EffectiveBoundaries(raw) ==
    TfSort([i \in DOMAIN raw |-> Sigmoid(raw[i])])

(* soft_bin_weights(x, raw_boundaries, steepness): consecutive differences *)
(* of the step function F_j(x) = sigmoid(steepness * (x - t_j)) over the   *)
(* effective boundaries t_1 <= ... <= t_(n-1), with end values 1 and 0.    *)
soft_bin_weights(x, raw, steep) ==
    LET t == EffectiveBoundaries(raw)
        n == Len(t) + 1
        F == Table([j \in 0 .. n |->
                 IF j = 0 THEN One
                 ELSE IF j = n THEN 0
                 ELSE Sigmoid(steep * (x - t[j]))])
    IN  [i \in 1 .. n |-> F[i - 1] - F[i]]

Init1D ==
    /\ model = << >>
    /\ data = << >>
    /\ tieBreak = "lowFirst"
    /\ ret = NoRet
    /\ calls = 0
    /\ reduceArg = FALSE
    /\ fwd = NoFwd
    /\ raw_boundaries \in RawBoundaryVecs
    /\ steepness \in Steepnesses
    /\ xs = << >>
    /\ memberships = << >>
    /\ boundaries_ = << >>
    /\ LoopIdle

(* A forward pass that passes a steepness of 1 instead of self.steepness,  *)
(* which C16 detects.                                                      *)
SoftBinWeightsUnitSteepness(x) ==
    /\ xs' = <<x>>
    /\ memberships' = soft_bin_weights(x, raw_boundaries, 1)
    /\ UNCHANGED <<raw_boundaries, steepness, boundaries_>>
    /\ UNCHANGED ndVars
    /\ UNCHANGED loopVars

(* The forward pass evaluates the memberships of an event with value x.    *)
SoftBinWeights(x) ==
    /\ xs' = <<x>>
    /\ memberships' = soft_bin_weights(x, raw_boundaries, steepness)
    /\ UNCHANGED <<raw_boundaries, steepness, boundaries_>>
    /\ UNCHANGED ndVars
    /\ UNCHANGED loopVars

(* One epoch of main(): the optimizer updates a raw boundary in place, the *)
(* effective boundaries of the updated model are computed for the history; *)
(* the memberships of the previous forward pass are discarded.             *)
TrainStep(i, v) ==
    /\ i \in DOMAIN raw_boundaries
    /\ raw_boundaries' = [raw_boundaries EXCEPT ![i] = v]
    /\ boundaries_' = EffectiveBoundaries(raw_boundaries')
    /\ xs' = << >>
    /\ memberships' = << >>
    /\ UNCHANGED steepness
    /\ UNCHANGED ndVars
    /\ UNCHANGED loopVars

Next1D ==
    \/ \E x \in XVals : SoftBinWeights(x)
    \/ \E i \in 1 .. (MaxCats - 1), v \in RawVals : TrainStep(i, v)

Spec1D == Init1D /\ [][Next1D]_vars

---------------------------------------------------------------------------
(* The optimisation loop of the toy example (main() of                     *)
(* run_toy_example.py): for every entry of gato_binning_options a model is *)
(* created and trained with early stopping, the best weights are restored  *)
(* and the significance of the optimised binning is stored.                *)

(* IEEE comparison a < b: false when either side is NaN.                   *)
FLess(a, b) == ~IsNaN(a) /\ ~IsNaN(b) /\ a < b

(* IEEE a + b and a * b (b in units of 1/One) with NaN propagation.        *)
FAdd(a, b) == IF IsNaN(a) \/ IsNaN(b) THEN NaN ELSE a + b
FMul(a, b) == IF IsNaN(a) \/ IsNaN(b) THEN NaN ELSE (a * b) \div One

HasNaN(v) == \E i \in DOMAIN v : IsNaN(v[i])
AllNaN(D) == [i \in D |-> NaN]

(* Number of epochs and patience of the early stopping, scaled down.       *)
epochs == 4
patience == 2

(* The 1-D samples: the processes "signal" and "bkg1" with at most         *)
(* MaxEvents events of unit weight in total.                               *)
ProcNames1D == {"signal", "bkg1"}
Events1D == [NN_output : {400, 900}, weight : Weights]
EventSeqs1D == UNION {[1 .. k -> Events1D] : k \in 0 .. MaxEvents}
Samples1D == {d \in [ProcNames1D -> EventSeqs1D] : TotalEvents(d) <= MaxEvents}

Lams == {0, 10}
UpdateVals == {0 - One, One}
OptionLists == {s \in UNION {[1 .. k -> 2 .. MaxCats] : k \in 1 .. 2} :
                   Len(s) = 2 => s[1] # s[2]}

(* memberships = soft_bin_weights(x, raw_boundaries, steepness) of every   *)
(* event of every non-empty process.                                       *)
Memberships1D(d, raw, steep) ==
    Table([p \in {q \in DOMAIN d : d[q] # << >>} |->
        Table([e \in DOMAIN d[p] |->
            Table(soft_bin_weights(d[p][e].NN_output, raw, steep))])])

(* A yield that sums the memberships without the event weights, which      *)
(* C26 detects.                                                            *)
Yield1DUnweighted(d, P, m, i) ==
    SumFn([p \in P |-> SumFn([e \in DOMAIN d[p] |-> m[p][e][i]])])

(* Sum over the processes in P of yield_i = reduce_sum(m_i * w).           *)
Yield1D(d, P, m, i) ==
    SumFn([p \in P |->
        SumFn([e \in DOMAIN d[p] |-> m[p][e][i] * d[p][e].weight])])

(* one_dimensional_binning_optimiser.call(data_dict): the per-bin yields   *)
(* and the loss -Z_overall; every value is NaN when a boundary is NaN.     *)
call(raw, steep, d) ==
    LET n_bins  == Len(raw) + 1
        m == Memberships1D(d, raw, steep)
        S == Table([i \in 1 .. n_bins |->
                 Yield1D(d, {p \in DOMAIN m : p = "signal"}, m, i)])
        B == Table([i \in 1 .. n_bins |->
                 Yield1D(d, {p \in DOMAIN m : p # "signal"}, m, i)])
    IN  IF HasNaN(raw)
        THEN [status |-> "ok", S |-> AllNaN(1 .. n_bins),
              B |-> AllNaN(1 .. n_bins), loss |-> NaN]
        ELSE [status |-> "ok", S |-> S, B |-> B, loss |-> 0 - TotalZ(S, B)]

(* low_bkg_penalty(B, threshold, steepness): a sigmoid step per bin,       *)
(* centred at threshold, summed over the bins.                             *)
low_bkg_penalty(B, threshold, steep) ==
    IF HasNaN(B) THEN NaN
    ELSE SumFn([i \in DOMAIN B |-> Sigmoid(steep * (threshold - B[i]))])

(* A total loss that subtracts the penalty term, which C11 detects.        *)
TotalLossMinus(l, lm, reg) ==
    IF IsNaN(l) \/ IsNaN(reg) THEN NaN ELSE l - (lm * reg) \div One

(* total_loss = loss; if lam != 0: total_loss += lam * regularisation      *)
TotalLoss(l, lm, reg) == IF lm # 0 THEN FAdd(l, FMul(lm, reg)) ELSE l

(* tape.gradient(total_loss, trainable_variables) is NaN when the loss is  *)
(* NaN and when Z_overall = 0: the derivative of tf.sqrt at 0 is inf and   *)
(* is multiplied by the zero derivative of the squares.                    *)
GradIsNaN(l, total) == IsNaN(total) \/ l = 0

(* An update that also adds a boundary, and with it a bin, which C21       *)
(* detects.                                                                *)
UpdatesAddBoundary(raw, l, total) ==
    IF GradIsNaN(l, total) THEN {AllNaN(DOMAIN raw)}
    ELSE {v \o <<0>> : v \in [DOMAIN raw -> UpdateVals]}

(* The raw boundaries optimizer.apply_gradients may leave behind.          *)
Updates(raw, l, total) ==
    IF GradIsNaN(l, total) THEN {AllNaN(DOMAIN raw)}
    ELSE [DOMAIN raw -> UpdateVals]

(* tf.sort(tf.sigmoid(raw)).numpy().tolist()                               *)
BoundaryList(raw) ==
    IF HasNaN(raw) THEN AllNaN(DOMAIN raw) ELSE EffectiveBoundaries(raw)

(* create_hist(...) with the optimised bin edges, then                     *)
(* compute_significance: hard yields per interval and their significance.  *)
HardYield(d, P, t, i) ==
    SumFn([p \in P |->
        SumFn([e \in DOMAIN d[p] |->
            LET x == d[p][e].NN_output
            IN  IF /\ (i = 1 \/ t[i - 1] <= x)
                   /\ (i = Len(t) + 1 \/ x < t[i])
                THEN d[p][e].weight * One ELSE 0])])

(* asymptotic_significance without the floor of B: the division by a     *)
(* zero background gives inf, or NaN where the signal is zero too, which   *)
(* C15 detects.                                                            *)
asymptotic_significance_unfloored(S, B) ==
    [i \in DOMAIN S |->
        IF B[i] = 0 THEN (IF S[i] = 0 THEN NaN ELSE Inf)
        ELSE Isqrt(AsimovZ2(S[i], B[i]) * One)]

(* asymptotic_significance with a logarithm that stops growing, which      *)
(* C14 detects.                                                            *)
asymptotic_significance_capped(S, B) ==
    [i \in DOMAIN S |->
        LET Sc == IF S[i] > One THEN One ELSE S[i]
        IN  Isqrt(AsimovZ2(Sc, B[i]) * One)]

(* asymptotic_significance(S, B) on tensors: one Asimov significance per   *)
(* bin.                                                                    *)
asymptotic_significance(S, B) ==
    [i \in DOMAIN S |-> Isqrt(AsimovZ2(S[i], B[i]) * One)]

(* compute_significance: np.sqrt(np.sum(Z_bins ** 2)).                     *)
QuadratureSum(Z) ==
    IF HasNaN(Z) THEN NaN
    ELSE IF \E i \in DOMAIN Z : Z[i] = Inf THEN Inf
    ELSE Isqrt(SumFn([i \in DOMAIN Z |-> (Z[i] * Z[i]) \div One]) * One)

compute_significance(S, B) == QuadratureSum(asymptotic_significance(S, B))

(* Z_opt of main(): the histograms with the optimised bin edges and their  *)
(* overall significance.                                                   *)
Z_opt(raw, d) ==
    IF HasNaN(raw) THEN NaN
    ELSE LET t == EffectiveBoundaries(raw)
             S == Table([i \in 1 .. (Len(t) + 1) |->
                      HardYield(d, {p \in DOMAIN d : p = "signal"}, t, i)])
             B == Table([i \in 1 .. (Len(t) + 1) |->
                      HardYield(d, {p \in DOMAIN d : p # "signal"}, t, i)])
         IN  compute_significance(S, B)

InitTrain ==
    /\ model = << >>
    /\ data \in Samples1D
    /\ tieBreak = "lowFirst"
    /\ ret = NoRet
    /\ calls = 0
    /\ reduceArg = FALSE
    /\ fwd = NoFwd
    /\ raw_boundaries = << >>
    /\ steepness \in Steepnesses
    /\ xs = << >>
    /\ memberships = << >>
    /\ boundaries_ = << >>
    /\ pc = "start"
    /\ gato_binning_options \in OptionLists
    /\ nbins = 0
    /\ lam \in Lams
    /\ epoch = 0
    /\ loss = 0
    /\ regularisation = 0
    /\ total_loss = 0
    /\ best_loss = 0
    /\ no_improvement_count = 0
    /\ best_weights = << >>
    /\ loss_history = << >>
    /\ optimized_significances = << >>
    /\ lamY = 0
    /\ lamU = 0
    /\ penY = 0
    /\ penU = 0
    /\ SigIdle
    /\ HistIdle

(* A loop head that creates the model and the histories but keeps the      *)
(* early-stopping state of the run before, which C20 detects.              *)
CreateModelKeepsEarlyStopping ==
    /\ pc = "start"
    /\ gato_binning_options # << >>
    /\ nbins' = Head(gato_binning_options)
    /\ gato_binning_options' = Tail(gato_binning_options)
    /\ raw_boundaries' \in [1 .. (nbins' - 1) -> UpdateVals]
    /\ best_loss' = IF optimized_significances = << >> THEN Inf ELSE best_loss
    /\ no_improvement_count' = no_improvement_count
    /\ best_weights' = << >>
    /\ loss_history' = << >>
    /\ epoch' = 0
    /\ pc' = "loop"
    /\ UNCHANGED <<steepness, xs, memberships, boundaries_, lam, loss,
                   regularisation, total_loss, optimized_significances>>
    /\ UNCHANGED ndVars
    /\ UNCHANGED stepVars
    /\ UNCHANGED sigVars
    /\ regularisation_history' = << >>
    /\ boundary_history' = << >>

(* The head of the outer loop: the next entry of gato_binning_options gets *)
(* a new model, and new early-stopping state and histories.                *)
CreateModel ==
    /\ pc = "start"
    /\ gato_binning_options # << >>
    /\ nbins' = Head(gato_binning_options)
    /\ gato_binning_options' = Tail(gato_binning_options)
    /\ raw_boundaries' \in [1 .. (nbins' - 1) -> UpdateVals]
    /\ best_loss' = Inf
    /\ no_improvement_count' = 0
    /\ best_weights' = << >>
    /\ loss_history' = << >>
    /\ epoch' = 0
    /\ pc' = "loop"
    /\ UNCHANGED <<steepness, xs, memberships, boundaries_, lam, loss,
                   regularisation, total_loss, optimized_significances>>
    /\ UNCHANGED ndVars
    /\ UNCHANGED stepVars
    /\ UNCHANGED sigVars
    /\ regularisation_history' = << >>
    /\ boundary_history' = << >>

(* An epoch whose improvement check looks at the total loss, penalty      *)
(* included, which C23 detects.                                            *)
EpochImprovesOnTotal ==
    /\ pc = "loop"
    /\ epoch < epochs
    /\ fwd' = call(raw_boundaries, steepness, data)
    /\ loss' = fwd'.loss
    /\ regularisation' = low_bkg_penalty(fwd'.B, 5 * One, 1)
    /\ total_loss' = TotalLoss(loss', lam, regularisation')
    /\ loss_history' = Append(loss_history, loss')
    /\ best_loss' = IF FLess(total_loss', best_loss) THEN total_loss'
                    ELSE best_loss
    /\ no_improvement_count' = IF FLess(total_loss', best_loss) THEN 0
                               ELSE no_improvement_count + 1
    /\ epoch' = epoch + 1
    /\ pc' = IF no_improvement_count' >= patience \/ epoch' = epochs
             THEN "after" ELSE "loop"
    /\ raw_boundaries' \in Updates(raw_boundaries, loss', total_loss')
    /\ boundaries_' = BoundaryList(raw_boundaries')
    /\ best_weights' = IF FLess(total_loss', best_loss) THEN raw_boundaries'
                       ELSE best_weights
    /\ UNCHANGED <<model, data, tieBreak, ret, calls, reduceArg>>
    /\ UNCHANGED <<steepness, xs, memberships, gato_binning_options,
                   nbins, lam, optimized_significances>>
    /\ UNCHANGED stepVars
    /\ UNCHANGED sigVars
    /\ regularisation_history' =
           Append(regularisation_history, regularisation')
    /\ boundary_history' = Append(boundary_history, boundaries_')

(* An epoch without the early-stopping check, which C22 detects.           *)
EpochWithoutPatience ==
    /\ pc = "loop"
    /\ epoch < epochs
    /\ fwd' = call(raw_boundaries, steepness, data)
    /\ loss' = fwd'.loss
    /\ regularisation' = low_bkg_penalty(fwd'.B, 5 * One, 1)
    /\ total_loss' = TotalLoss(loss', lam, regularisation')
    /\ loss_history' = Append(loss_history, loss')
    /\ best_loss' = IF FLess(loss', best_loss) THEN loss' ELSE best_loss
    /\ no_improvement_count' = IF FLess(loss', best_loss) THEN 0
                               ELSE no_improvement_count + 1
    /\ epoch' = epoch + 1
    /\ pc' = IF epoch' = epochs THEN "after" ELSE "loop"
    /\ raw_boundaries' \in Updates(raw_boundaries, loss', total_loss')
    /\ boundaries_' = BoundaryList(raw_boundaries')
    /\ best_weights' = IF FLess(loss', best_loss) THEN raw_boundaries'
                       ELSE best_weights
    /\ UNCHANGED <<model, data, tieBreak, ret, calls, reduceArg>>
    /\ UNCHANGED <<steepness, xs, memberships, gato_binning_options,
                   nbins, lam, optimized_significances>>
    /\ UNCHANGED stepVars
    /\ UNCHANGED sigVars
    /\ regularisation_history' =
           Append(regularisation_history, regularisation')
    /\ boundary_history' = Append(boundary_history, boundaries_')

(* One epoch: forward pass, penalty, total loss, parameter update,         *)
(* histories, improvement check and early-stopping check.  epoch counts    *)
(* the completed epochs.                                                   *)
Epoch ==
    /\ pc = "loop"
    /\ epoch < epochs
    /\ fwd' = call(raw_boundaries, steepness, data)
    /\ loss' = fwd'.loss
    /\ regularisation' = low_bkg_penalty(fwd'.B, 5 * One, 1)
    /\ total_loss' = TotalLoss(loss', lam, regularisation')
    /\ loss_history' = Append(loss_history, loss')
    /\ best_loss' = IF FLess(loss', best_loss) THEN loss' ELSE best_loss
    /\ no_improvement_count' = IF FLess(loss', best_loss) THEN 0
                               ELSE no_improvement_count + 1
    /\ epoch' = epoch + 1
    /\ pc' = IF no_improvement_count' >= patience \/ epoch' = epochs
             THEN "after" ELSE "loop"
    /\ raw_boundaries' \in Updates(raw_boundaries, loss', total_loss')
    /\ boundaries_' = BoundaryList(raw_boundaries')
    /\ best_weights' = IF FLess(loss', best_loss) THEN raw_boundaries'
                       ELSE best_weights
    /\ UNCHANGED <<model, data, tieBreak, ret, calls, reduceArg>>
    /\ UNCHANGED <<steepness, xs, memberships, gato_binning_options,
                   nbins, lam, optimized_significances>>
    /\ UNCHANGED stepVars
    /\ UNCHANGED sigVars
    /\ regularisation_history' =
           Append(regularisation_history, regularisation')
    /\ boundary_history' = Append(boundary_history, boundaries_')

(* After the loop: restore the best weights if any were stored.            *)
RestoreBest ==
    /\ pc = "after"
    /\ raw_boundaries' = IF best_weights # << >> THEN best_weights
                         ELSE raw_boundaries
    /\ pc' = "restored"
    /\ UNCHANGED <<steepness, xs, memberships, boundaries_>>
    /\ UNCHANGED <<gato_binning_options, nbins, lam, epoch, loss,
                   regularisation, total_loss, best_loss,
                   no_improvement_count, best_weights, loss_history,
                   optimized_significances>>
    /\ UNCHANGED ndVars
    /\ UNCHANGED stepVars
    /\ UNCHANGED sigVars
    /\ UNCHANGED histVars

(* The significance of the optimised binning is stored under nbins and     *)
(* the outer loop goes on to the next entry.                               *)
StoreResult ==
    /\ pc = "restored"
    /\ optimized_significances' =
           [k \in DOMAIN optimized_significances \cup {nbins} |->
               IF k = nbins THEN Z_opt(raw_boundaries, data)
               ELSE optimized_significances[k]]
    /\ pc' = "start"
    /\ UNCHANGED oneDVars
    /\ UNCHANGED <<gato_binning_options, nbins, lam, epoch, loss,
                   regularisation, total_loss, best_loss,
                   no_improvement_count, best_weights, loss_history>>
    /\ UNCHANGED ndVars
    /\ UNCHANGED stepVars
    /\ UNCHANGED sigVars
    /\ UNCHANGED histVars

NextTrain ==
    \/ CreateModel
    \/ Epoch
    \/ RestoreBest
    \/ StoreResult

SpecTrain == InitTrain /\ [][NextTrain]_vars

---------------------------------------------------------------------------
(* The optimisation loop of the 2-D example (main() of 2D.py): train_step  *)
(* is called args.epochs times on the tensor data.                         *)

(* One event per process at most: signal1 near the first corner, signal2   *)
(* near the second, background near the third; background events carry     *)
(* the largest weight.  The discriminant has three components, of which    *)
(* the data conversion hands the first k to the model: main() keeps two,   *)
(* a caller of train_step may keep one or all three.                       *)
ProcNames2D == {"signal1", "signal2", "bkg1"}
SampleDims == {1, 2, 3}
Event2D(p, k) ==
    IF p = "signal1"
    THEN [NN_output |-> SubSeq(<<800, 100, 100>>, 1, k), weight |-> 1]
    ELSE IF p = "signal2"
    THEN [NN_output |-> SubSeq(<<100, 800, 100>>, 1, k), weight |-> 1]
    ELSE [NN_output |-> SubSeq(<<100, 100, 800>>, 1, k), weight |-> MaxWeight]
Samples2D ==
    {[p \in ProcNames2D |-> IF p \in P THEN <<Event2D(p, k)>> ELSE << >>] :
        P \in SUBSET ProcNames2D, k \in SampleDims}

(* The samples hold an event whose discriminant has not the model's dim    *)
(* components.                                                             *)
DimMismatch(d) ==
    \E p \in DOMAIN d : \E e \in DOMAIN d[p] : Len(d[p][e].NN_output) # dim

(* log_prob(x) of a 2-component distribution: x is broadcast against the   *)
(* event shape, so one component is repeated, and any other number of      *)
(* components is a shape error raised by the library.                      *)
LogProbRaises(d) ==
    \E p \in DOMAIN d : \E e \in DOMAIN d[p] :
        Len(d[p][e].NN_output) \notin {1, dim}

BroadcastSamples(d) ==
    [p \in DOMAIN d |->
        [e \in DOMAIN d[p] |->
            [d[p][e] EXCEPT !.NN_output =
                IF Len(@) = 1 THEN [c \in 1 .. dim |-> @[1]] ELSE @]]]

(* The coefficients --lam-yield and --lam-unc (in 1/One).                  *)
LamPairs == {<<0, 0>>, <<500, 0>>, <<0, 500>>}
UpdateMeans == {<<2 * One, 0 - 2 * One>>, <<0 - 2 * One, 2 * One>>}

ModelHasNaN(m) == \E i \in Bins(m.n_cats) : HasNaN(m.means[i])

(* model.call(tdata); every value is NaN when a parameter is NaN.          *)
ModelCall(m, d) ==
    IF ModelHasNaN(m)
    THEN [status |-> "ok", gamma |-> << >>,
          sig1_y |-> AllNaN(Bins(m.n_cats)), sig2_y |-> AllNaN(Bins(m.n_cats)),
          loss |-> NaN,
          bkg_y |-> AllNaN(Bins(m.n_cats)), bkg_w2 |-> AllNaN(Bins(m.n_cats))]
    ELSE GATO_2D_call(m, BroadcastSamples(d))

(* high_bkg_uncertainty_penalty(Bw2, B, rel_threshold): a sigmoid step per *)
(* bin in the relative uncertainty sqrt(Bw2)/B (B floored), summed over    *)
(* the bins.                                                               *)
high_bkg_uncertainty_penalty(Bw2, B, rel_threshold) ==
    IF HasNaN(B) \/ HasNaN(Bw2) THEN NaN
    ELSE SumFn([i \in DOMAIN B |->
             LET Bf  == IF B[i] < 1 THEN 1 ELSE B[i]
                 rel == (Isqrt(Bw2[i] * One) * One) \div Bf
             IN  Sigmoid(rel - rel_threshold)])

(* A total that adds both penalties whatever their coefficients, which     *)
(* C12 detects.                                                            *)
Total2DUnweighted(l, lY, pY, lU, pU) == FAdd(FAdd(l, pY), pU)

(* total = loss + lamY*penY + lamU*penU                                    *)
Total2D(l, lY, pY, lU, pU) == FAdd(FAdd(l, FMul(lY, pY)), FMul(lU, pU))

(* The models optimizer.apply_gradients may leave behind: NaN parameters   *)
(* when the gradient is NaN (the loss is NaN, or sqrt(Z1*Z2) is taken at   *)
(* 0), otherwise a new mean for the first component.                       *)
Updates2D(m, l, total) ==
    IF GradIsNaN(l, total)
    THEN {[m EXCEPT !.means = [i \in Bins(m.n_cats) |-> AllNaN(1 .. dim)]]}
    ELSE {[m EXCEPT !.means[0] = v] : v \in UpdateMeans}

InitTrain2D ==
    /\ model \in Models
    /\ data \in Samples2D
    /\ tieBreak = "lowFirst"
    /\ ret = NoRet
    /\ calls = 0
    /\ reduceArg = FALSE
    /\ fwd = NoFwd
    /\ OneDIdle
    /\ pc = "loop2d"
    /\ gato_binning_options = << >>
    /\ nbins = 0
    /\ lam = 0
    /\ epoch = 0
    /\ loss = 0
    /\ regularisation = 0
    /\ total_loss = 0
    /\ best_loss = 0
    /\ no_improvement_count = 0
    /\ best_weights = << >>
    /\ loss_history = << >>
    /\ optimized_significances = << >>
    /\ \E lams \in LamPairs : lamY = lams[1] /\ lamU = lams[2]
    /\ penY = 0
    /\ penU = 0
    /\ SigIdle
    /\ HistIdle

(* One epoch: train_step (forward pass, both penalties, total, parameter   *)
(* update) and the loss history.  epoch counts the completed epochs.       *)
Step2D ==
    /\ pc = "loop2d"
    /\ epoch < epochs
    /\ ~LogProbRaises(data)
    /\ fwd' = ModelCall(model, data)
    /\ loss' = fwd'.loss
    /\ penY' = low_bkg_penalty(fwd'.bkg_y, 5 * One, 1)
    /\ penU' = high_bkg_uncertainty_penalty(fwd'.bkg_w2, fwd'.bkg_y, 200)
    /\ total_loss' = Total2D(loss', lamY, penY', lamU, penU')
    /\ model' \in Updates2D(model, loss', total_loss')
    /\ loss_history' = Append(loss_history, loss')
    /\ epoch' = epoch + 1
    /\ pc' = IF epoch' = epochs THEN "after2d" ELSE "loop2d"
    /\ UNCHANGED <<data, tieBreak, ret, calls, reduceArg>>
    /\ UNCHANGED oneDVars
    /\ UNCHANGED <<gato_binning_options, nbins, lam, regularisation,
                   best_loss, no_improvement_count, best_weights,
                   optimized_significances, lamY, lamU>>
    /\ UNCHANGED sigVars
    /\ UNCHANGED histVars

(* The forward pass of train_step raises inside log_prob: the exception   *)
(* leaves train_step and main().                                           *)
Step2DRaises ==
    /\ pc = "loop2d"
    /\ epoch < epochs
    /\ LogProbRaises(data)
    /\ fwd' = [NoFwd EXCEPT !.status = "InvalidArgumentError"]
    /\ pc' = "raised"
    /\ UNCHANGED <<model, data, tieBreak, ret, calls, reduceArg>>
    /\ UNCHANGED oneDVars
    /\ UNCHANGED <<gato_binning_options, nbins, lam, epoch, loss,
                   regularisation, total_loss, best_loss,
                   no_improvement_count, best_weights, loss_history,
                   optimized_significances>>
    /\ UNCHANGED stepVars
    /\ UNCHANGED sigVars
    /\ UNCHANGED histVars

NextTrain2D ==
    \/ Step2D
    \/ Step2DRaises

SpecTrain2D == InitTrain2D /\ [][NextTrain2D]_vars

---------------------------------------------------------------------------
(* compute_significance on its own: the histogram values are drawn from    *)
(* small sets and the function is applied once.                            *)

MaxBins == 3
SVals == {0, 500, One, 3 * One}
BVals == {0, 500, 2 * One}

InitSig ==
    /\ model = << >>
    /\ data = << >>
    /\ tieBreak = "lowFirst"
    /\ ret = NoRet
    /\ calls = 0
    /\ reduceArg = FALSE
    /\ fwd = NoFwd
    /\ OneDIdle
    /\ pc = "hists"
    /\ gato_binning_options = << >>
    /\ nbins = 0
    /\ lam = 0
    /\ epoch = 0
    /\ loss = 0
    /\ regularisation = 0
    /\ total_loss = 0
    /\ best_loss = 0
    /\ no_improvement_count = 0
    /\ best_weights = << >>
    /\ loss_history = << >>
    /\ optimized_significances = << >>
    /\ lamY = 0
    /\ lamU = 0
    /\ penY = 0
    /\ penU = 0
    /\ \E n \in 1 .. MaxBins :
           /\ S_vals \in [1 .. n -> SVals]
           /\ B_vals \in [1 .. n -> BVals]
    /\ Z_bins = << >>
    /\ Z_overall = 0
    /\ HistIdle

ComputeSignificance ==
    /\ pc = "hists"
    /\ Z_bins' = asymptotic_significance(S_vals, B_vals)
    /\ Z_overall' = QuadratureSum(Z_bins')
    /\ pc' = "significance"
    /\ UNCHANGED <<S_vals, B_vals>>
    /\ UNCHANGED ndVars
    /\ UNCHANGED oneDVars
    /\ UNCHANGED <<gato_binning_options, nbins, lam, epoch, loss,
                   regularisation, total_loss, best_loss,
                   no_improvement_count, best_weights, loss_history,
                   optimized_significances>>
    /\ UNCHANGED stepVars
    /\ UNCHANGED histVars

NextSig == ComputeSignificance

SpecSig == InitSig /\ [][NextSig]_vars

---------------------------------------------------------------------------
(* Properties of assign_bins_and_order (specification Spec).               *)

Returned == ret.status = "ok"

(* The raw argmax bins of the non-empty processes, as the call computed    *)
(* them.                                                                   *)
RawBins == AllRawAssignments(model, data, reduceArg)

(* The events of the sample mapping d, as <<process, index>> pairs.         *)
EventsOf(d) == UNION {{<<p, e>> : e \in DOMAIN d[p]} : p \in DOMAIN d}

(* C1: the returned order is a permutation of {0,...,n_cats-1}: it has     *)
(* length n_cats and holds every raw bin index exactly once, also for      *)
(* bins without events and for bins whose significances tie.               *)
C1_OrderIsPermutation ==
    Returned =>
        /\ DOMAIN ret.order = Bins(model.n_cats)
        /\ \A r \in Bins(model.n_cats) :
               Cardinality({j \in DOMAIN ret.order : ret.order[j] = r}) = 1

(* A returned order for three bins of which two tie and one has no event.  *)
C1_Witness ==
    /\ Returned
    /\ model.n_cats = 3
    /\ TotalEvents(data) = 2
    /\ \E i, j \in Bins(3) : i # j /\ ret.significances[i] = ret.significances[j]
    /\ LET raw == RawBins
       IN  \E i \in Bins(3) : \A pe \in EventsOf(data) : raw[pe[1]][pe[2]] # i
    /\ \E i \in Bins(3) : ret.significances[i] > 0

(* C2: the raw-to-canonical mapping and the returned inverse mapping are   *)
(* mutually inverse bijections on the bins, and inv_mapping[c] = order[c]. *)
C2_MappingsInverse ==
    Returned =>
        LET nom == new_order_mapping(ret.order)
        IN  /\ DOMAIN ret.inv_mapping = Bins(model.n_cats)
            /\ DOMAIN nom = Bins(model.n_cats)
            /\ \A c \in Bins(model.n_cats) : ret.inv_mapping[c] = ret.order[c]
            /\ \A r \in Bins(model.n_cats) : ret.inv_mapping[nom[r]] = r
            /\ \A c \in Bins(model.n_cats) : nom[ret.inv_mapping[c]] = c

(* A returned order that is not its own inverse (a 3-cycle).               *)
C2_Witness ==
    /\ Returned
    /\ model.n_cats = 3
    /\ \E c \in Bins(3) : ret.order[ret.order[c]] # c

(* C3: significances are indexed by raw bin (a bin is positive exactly     *)
(* when a signal event fell into it) and the order is ascending in them.   *)
C3_AscendingSignificance ==
    Returned =>
        /\ DOMAIN ret.significances = Bins(model.n_cats)
        /\ LET raw == RawBins
           IN  \A i \in Bins(model.n_cats) :
                   ret.significances[i] > 0 <=>
                       \E pe \in EventsOf(data) :
                           StartsWithSignal(pe[1]) /\ raw[pe[1]][pe[2]] = i
        /\ \A j \in Bins(model.n_cats - 1) :
               ret.significances[ret.order[j]] <= ret.significances[ret.order[j + 1]]

(* Three bins with three different significances, in an order that is not  *)
(* the raw one.                                                            *)
C3_Witness ==
    /\ Returned
    /\ model.n_cats = 3
    /\ ret.significances[ret.order[0]] < ret.significances[ret.order[1]]
    /\ ret.significances[ret.order[1]] < ret.significances[ret.order[2]]
    /\ ret.order[0] # 0

(* C4: every returned label is the raw argmax bin relabelled through the   *)
(* canonical mapping; equal labels mean equal raw bins; one label per      *)
(* event.                                                                  *)
C4_LabelsAreRelabelledRawBins ==
    Returned =>
        LET raw == RawBins
        IN  /\ DOMAIN ret.bin_assignments = DOMAIN data
            /\ \A p \in DOMAIN data :
                   DOMAIN ret.bin_assignments[p] = DOMAIN data[p]
            /\ \A pe \in EventsOf(data) :
                   LET c == ret.bin_assignments[pe[1]][pe[2]]
                   IN  /\ c \in Bins(model.n_cats)
                       /\ ret.order[c] = raw[pe[1]][pe[2]]
            /\ \A pe, qf \in EventsOf(data) :
                   (ret.bin_assignments[pe[1]][pe[2]]
                        = ret.bin_assignments[qf[1]][qf[2]])
                       <=> (raw[pe[1]][pe[2]] = raw[qf[1]][qf[2]])

(* Two events with different raw bins, one of them relabelled.             *)
C4_Witness ==
    /\ Returned
    /\ LET raw == RawBins
       IN  \E pe, qf \in EventsOf(data) :
               /\ raw[pe[1]][pe[2]] # raw[qf[1]][qf[2]]
               /\ ret.bin_assignments[pe[1]][pe[2]] # raw[pe[1]][pe[2]]

(* Temperatures (in 1/One) at which the soft assignment is compared.       *)
Temps == {100, 300, 500, 1000, 5000}

(* The responsibilities the forward pass gives event e of process p at T.  *)
SoftGamma(p, e, T) ==
    Responsibilities(
        LogJoint(LogSoftmax(model.mixture_logits), CallLocs(model),
                 get_scale_tril(model), data[p][e].NN_output), T)

HardBinIsSoftMax ==
    \A pe \in EventsOf(data) : \A T \in Temps :
        LET g == SoftGamma(pe[1], pe[2], T)
        IN  g[ret.order[ret.bin_assignments[pe[1]][pe[2]]]] = MaxFn(g)

(* C6 as stated: whatever the call's arguments, the raw bin chosen by      *)
(* assign_bins_and_order has maximal soft responsibility at every T > 0.   *)
C6_HardIsZeroTemperatureLimit == Returned => HardBinIsSoftMax

(* C6: called with reduce=True (as main() calls it for GATO_2D), the raw   *)
(* bin chosen for an event has maximal soft responsibility at every T > 0. *)
C6_HardIsZeroTemperatureLimitReduce ==
    (Returned /\ reduceArg) => HardBinIsSoftMax

(* An event hardened with reduce=True into a bin other than bin 0 whose    *)
(* responsibility at the model's temperature is neither 0 nor 1.           *)
C6_Witness ==
    /\ Returned
    /\ reduceArg
    /\ \E pe \in EventsOf(data) :
           LET g == SoftGamma(pe[1], pe[2], temperature)
               r == ret.order[ret.bin_assignments[pe[1]][pe[2]]]
           IN  r # 0 /\ g[r] < One /\ g[r] = MaxFn(g) /\ g[0] > 0

(* The sample mapping d without the process p.                             *)
Without(d, p) == [q \in DOMAIN d \ {p} |-> d[q]]

(* C7: a process with no events is not an error: the call returns, the     *)
(* process gets an empty assignment array and everything else is as if    *)
(* the process were absent.                                                *)
C7_EmptyProcessNotError ==
    \A p \in DOMAIN data :
        (calls = 1 /\ data[p] = << >>) =>
            /\ Returned
            /\ ret.bin_assignments[p] = << >>
            /\ LET other == assign_bins_and_order(model, Without(data, p),
                                                  reduceArg, tieBreak)
               IN  /\ ret.order = other.order
                   /\ ret.significances = other.significances
                   /\ ret.inv_mapping = other.inv_mapping
                   /\ \A q \in DOMAIN data \ {p} :
                          ret.bin_assignments[q] = other.bin_assignments[q]

---------------------------------------------------------------------------
(* Properties of the forward pass (specification SpecCall).                *)

TotalWeight(d) ==
    SumFn([p \in DOMAIN d |-> SumFn([e \in DOMAIN d[p] |-> d[p][e].weight])])

(* C9: the responsibilities of every event are non-negative and sum to 1   *)
(* (up to one rounding unit per component), so the yields summed over the  *)
(* bins give the total event weight.                                       *)
C9_ResponsibilitiesPartitionOfUnity ==
    fwd.status = "ok" =>
        /\ \A pe \in EventsOf(data) :
               LET g == fwd.gamma[pe[1]][pe[2]]
               IN  /\ DOMAIN g = Bins(model.n_cats)
                   /\ \A i \in DOMAIN g : g[i] >= 0
                   /\ SumFn(g) <= One
                   /\ SumFn(g) > One - model.n_cats
        /\ LET total == SumFn(fwd.sig1_y) + SumFn(fwd.sig2_y) + SumFn(fwd.bkg_y)
               W     == TotalWeight(data)
           IN  /\ total <= W * One
               /\ total >= W * (One - model.n_cats + 1)

(* A forward pass over a signal and a background event, with an event      *)
(* shared between at least two components.                                 *)
C9_Witness ==
    /\ fwd.status = "ok"
    /\ model.n_cats = 3
    /\ \A p \in ProcNames : p \in DOMAIN data /\ data[p] # << >>
    /\ \E pe \in EventsOf(data) :
           Cardinality({i \in Bins(3) : fwd.gamma[pe[1]][pe[2]][i] > 100}) >= 2

---------------------------------------------------------------------------
(* Properties of the 1-D boundaries (specification Spec1D).                *)

Computed1D == memberships # << >>

(* C8 as stated: the memberships are each strictly positive and sum to 1.  *)
C8_MembershipsStrictlyPositive ==
    Computed1D =>
        /\ \A i \in DOMAIN memberships : memberships[i] > 0
        /\ SumFn(memberships) = One

(* C8: the n_cats memberships are each non-negative and sum to 1.          *)
C8_MembershipsPartitionOfUnity ==
    Computed1D =>
        /\ Len(memberships) = Len(raw_boundaries) + 1
        /\ \A i \in DOMAIN memberships : memberships[i] >= 0
        /\ SumFn(memberships) = One

(* Memberships of three bins for raw boundaries given in descending order, *)
(* all three strictly between 0 and 1.                                     *)
C8_Witness ==
    /\ Computed1D
    /\ Len(raw_boundaries) = 2
    /\ raw_boundaries[1] > raw_boundaries[2]
    /\ \A i \in DOMAIN memberships : memberships[i] > 0 /\ memberships[i] < One

(* C10: the effective boundaries are non-decreasing, each strictly inside  *)
(* (0,1), and a reordering of the sigmoid-transformed raw values.          *)
C10_BoundariesOrderedInsideUnit ==
    boundaries_ # << >> =>
        /\ Len(boundaries_) = Len(raw_boundaries)
        /\ \A j \in 1 .. (Len(boundaries_) - 1) : boundaries_[j] <= boundaries_[j + 1]
        /\ \A j \in DOMAIN boundaries_ : 0 < boundaries_[j] /\ boundaries_[j] < One
        /\ \A v \in Range(boundaries_) :
               Cardinality({j \in DOMAIN boundaries_ : boundaries_[j] = v})
                   = Cardinality({j \in DOMAIN raw_boundaries :
                                      Sigmoid(raw_boundaries[j]) = v})

---------------------------------------------------------------------------
(* Properties of the optimisation loop (specification SpecTrain).          *)

(* At least one epoch of the current run is done: fwd, loss,               *)
(* regularisation and total_loss are those of its last epoch.              *)
EpochRan == loss_history # << >>

(* Total event weight of the processes of d selected by signal.            *)
Weight1D(d, signal) ==
    SumFn([p \in {q \in DOMAIN d : (q = "signal") = signal} |->
        SumFn([e \in DOMAIN d[p] |-> d[p][e].weight])])

(* C11: the scalar minimised in a training step is -Z_total plus lam times *)
(* the penalty, where Z_total is the quadrature sum of the per-bin         *)
(* significances of the yields of that forward pass and the penalty is     *)
(* evaluated on the background yields of the same forward pass.            *)
C11_LossComposition ==
    EpochRan =>
        IF IsNaN(loss) THEN IsNaN(total_loss)
        ELSE LET Z2      == [i \in DOMAIN fwd.S |-> AsimovZ2(fwd.S[i], fwd.B[i])]
                 Z_total == Isqrt(SumFn(Z2) * One)
                 penalty == low_bkg_penalty(fwd.B, 5 * One, 1)
             IN  /\ DOMAIN fwd.S = 1 .. nbins
                 /\ DOMAIN fwd.B = 1 .. nbins
                 /\ SumFn(fwd.S) = Weight1D(data, TRUE) * One
                 /\ SumFn(fwd.B) = Weight1D(data, FALSE) * One
                 /\ loss = 0 - Z_total
                 /\ regularisation = penalty
                 /\ total_loss = (0 - Z_total) + (lam * penalty) \div One

(* An epoch of a three-bin run with signal and background, a positive      *)
(* significance and a penalty term that changes the loss.                  *)
C11_Witness ==
    /\ EpochRan
    /\ nbins = 3
    /\ lam # 0
    /\ loss < 0
    /\ ~IsNaN(loss)
    /\ total_loss > loss
    /\ Weight1D(data, TRUE) > 0
    /\ Weight1D(data, FALSE) > 0

---------------------------------------------------------------------------
(* Properties of the 2-D optimisation loop (specification SpecTrain2D).    *)

(* C12: a penalty term whose coefficient is zero is disabled: the total    *)
(* loss of the step, from which alone the update is computed, equals the   *)
(* one obtained without the term, whatever the penalty evaluates to.       *)
C12_ZeroCoefficientDisables ==
    (pc \in {"loop2d", "after2d"} /\ EpochRan) =>
        /\ (lamY = 0 /\ lamU = 0) => total_loss = loss
        /\ lamY = 0 => total_loss = FAdd(loss, FMul(lamU, penU))
        /\ lamU = 0 => total_loss = FAdd(loss, FMul(lamY, penY))

(* A step with both coefficients zero, both penalties positive and a       *)
(* non-zero loss.                                                          *)
C12_Witness ==
    /\ pc \in {"loop2d", "after2d"}
    /\ EpochRan
    /\ lamY = 0
    /\ lamU = 0
    /\ ~IsNaN(loss)
    /\ loss < 0
    /\ penY > 0
    /\ penU > 0

(* Per-bin yields of the processes in P, from the responsibilities and     *)
(* weights of their events.                                                *)
YieldOf(P, i) ==
    SumFn([p \in P |->
        SumFn([e \in DOMAIN data[p] |-> fwd.gamma[p][e][i] * data[p][e].weight])])

(* C13: the two-signal loss is -sqrt(Z1*Z2), where Z1 takes signal1's      *)
(* yields as signal and background + signal2 as background, Z2 the same    *)
(* with the signals exchanged, all on the same responsibilities.           *)
C13_GeometricMeanOfTwoSignals ==
    (pc \in {"loop2d", "after2d"} /\ EpochRan /\ ~IsNaN(loss)) =>
        LET cats == Bins(model.n_cats)
            s1 == [i \in cats |-> YieldOf({"signal1"}, i)]
            s2 == [i \in cats |-> YieldOf({"signal2"}, i)]
            b  == [i \in cats |-> YieldOf(DOMAIN data \ {"signal1", "signal2"}, i)]
            Z1 == Isqrt(SumFn([i \in cats |-> AsimovZ2(s1[i], b[i] + s2[i])]) * One)
            Z2 == Isqrt(SumFn([i \in cats |-> AsimovZ2(s2[i], b[i] + s1[i])]) * One)
        IN  /\ \A i \in cats : /\ fwd.sig1_y[i] = s1[i]
                               /\ fwd.sig2_y[i] = s2[i]
                               /\ fwd.bkg_y[i] = b[i]
            /\ loss = 0 - Isqrt(Z1 * Z2)

(* A step on a sample with both signals and background in which the other  *)
(* signal shares a bin with each signal.                                   *)
C13_Witness ==
    /\ pc \in {"loop2d", "after2d"}
    /\ EpochRan
    /\ ~IsNaN(loss)
    /\ loss < 0
    /\ model.n_cats >= 2
    /\ \A p \in ProcNames2D : data[p] # << >>
    /\ \E i \in Bins(model.n_cats) : fwd.sig1_y[i] > 100 /\ fwd.sig2_y[i] > 100
    /\ \E i \in Bins(model.n_cats) : fwd.bkg_y[i] > 100

---------------------------------------------------------------------------
(* Properties of the significance.                                         *)

SigComputed == pc = "significance"

(* C14: for a fixed background B > 0 the per-bin significance does not     *)
(* decrease when the signal grows, it grows strictly once it is above      *)
(* zero, and it is 0 for a bin without signal.                             *)
C14_SignificanceMonotoneInSignal ==
    SigComputed =>
        /\ \A i \in DOMAIN Z_bins :
               B_vals[i] > 0 /\ S_vals[i] = 0 => Z_bins[i] = 0
        /\ \A i, j \in DOMAIN Z_bins :
               B_vals[i] > 0 /\ B_vals[i] = B_vals[j] /\ S_vals[i] < S_vals[j]
                   => /\ Z_bins[i] <= Z_bins[j]
                      /\ Z_bins[i] > 0 => Z_bins[i] < Z_bins[j]

C14_Witness ==
    /\ SigComputed
    /\ \E i, j \in DOMAIN Z_bins :
           /\ B_vals[i] > 0 /\ B_vals[i] = B_vals[j]
           /\ S_vals[i] < S_vals[j]
           /\ 0 < Z_bins[i] /\ Z_bins[i] < Z_bins[j]
    /\ \E i \in DOMAIN Z_bins :
           B_vals[i] > 0 /\ S_vals[i] = 0 /\ Z_bins[i] = 0

(* C15: when no bin has any background, every per-bin significance and     *)
(* their combination are finite numbers, 0 in the bins without signal and  *)
(* positive in the bins with signal.                                       *)
C15_ZeroBackgroundIsFinite ==
    SigComputed /\ (\A i \in DOMAIN B_vals : B_vals[i] = 0) =>
        /\ \A i \in DOMAIN Z_bins :
               /\ ~IsNaN(Z_bins[i]) /\ Z_bins[i] < Inf
               /\ S_vals[i] = 0 => Z_bins[i] = 0
               /\ S_vals[i] > 0 => Z_bins[i] > 0
        /\ ~IsNaN(Z_overall) /\ 0 <= Z_overall /\ Z_overall < Inf

C15_Witness ==
    /\ SigComputed
    /\ \A i \in DOMAIN B_vals : B_vals[i] = 0
    /\ \E i, j \in DOMAIN Z_bins :
           S_vals[i] = 0 /\ S_vals[j] > 0 /\ Z_bins[j] > 0

---------------------------------------------------------------------------
(* Properties of the memberships at a large steepness.                     *)

(* The interval of the effective boundaries that holds x.                  *)
HardInterval(x, raw) ==
    1 + Cardinality({j \in DOMAIN raw : EffectiveBoundaries(raw)[j] <= x})

(* C16: at the large steepness the memberships of an event are, within a   *)
(* hundredth, 1 for the interval between the effective boundaries that     *)
(* holds its value and 0 for every other bin.                              *)
C16_LargeSteepnessIsHardAssignment ==
    Computed1D /\ steepness = 500 =>
        \A i \in DOMAIN memberships :
            IF i = HardInterval(xs[1], raw_boundaries)
            THEN memberships[i] >= One - One \div 100
            ELSE memberships[i] <= One \div 100

C16_Witness ==
    /\ Computed1D
    /\ steepness = 500
    /\ raw_boundaries = <<0>>
    /\ xs = <<600>>
    /\ memberships = <<0, One>>

---------------------------------------------------------------------------
(* Properties of the handling of an invalid configuration.                 *)

(* C17: with samples whose discriminant has not the model's number of      *)
(* components no forward pass is entered: the configuration is rejected    *)
(* before the first training step.                                         *)
C17_DimensionMismatchFailsBeforeTraining ==
    DimMismatch(data) => fwd.status = "none"

---------------------------------------------------------------------------
(* Properties of the end of the optimisation loop.                         *)

(* C18: a loss that is not finite ends the training: it is the last entry  *)
(* of the loss history and the loop does not go on to another epoch.       *)
C18_NonFiniteLossStopsTraining ==
    \A i \in DOMAIN loss_history :
        IsNaN(loss_history[i]) => i = Len(loss_history) /\ pc # "loop"

(* C19: after the loop has ended with at least one improvement the         *)
(* variables hold the stored snapshot, and the objective evaluated on the  *)
(* restored model is best_loss.                                            *)
C19_RestoredModelReproducesBestLoss ==
    pc = "restored" /\ best_weights # << >> =>
        /\ raw_boundaries = best_weights
        /\ call(raw_boundaries, steepness, data).loss = best_loss

---------------------------------------------------------------------------
(* Properties of the runs for the entries of gato_binning_options.         *)

(* The lowest loss of a history, float("inf") when it holds no number.     *)
BestOf(h) ==
    LET F == {h[i] : i \in DOMAIN h} \ {NaN}
    IN  IF F = {} THEN Inf ELSE CHOOSE m \in F : \A v \in F : m <= v

(* The epochs of a history since its last strict improvement.              *)
SinceImprovement(h) ==
    LET I == {i \in DOMAIN h :
                 /\ ~IsNaN(h[i])
                 /\ \A j \in 1 .. (i - 1) : IsNaN(h[j]) \/ h[i] < h[j]}
    IN  IF I = {} THEN Len(h) ELSE Len(h) - CHOOSE m \in I : \A i \in I : i <= m

(* The state of a run is that of its own epochs alone.                     *)
RunStateIsOwn ==
    pc \in {"loop", "after", "restored"} =>
        /\ Len(raw_boundaries) = nbins - 1
        /\ Len(loss_history) = epoch
        /\ best_loss = BestOf(loss_history)
        /\ no_improvement_count = SinceImprovement(loss_history)
        /\ (best_weights = << >>) <=> (best_loss = Inf)
        /\ best_weights # << >> => Len(best_weights) = nbins - 1
        /\ nbins \notin DOMAIN optimized_significances

---------------------------------------------------------------------------
(* Properties of one training step.                                        *)

(* An epoch of the toy loop is taken.                                      *)
EpochStep == pc = "loop" /\ epoch' = epoch + 1

(* C21: a training step is one forward pass on the parameters and samples  *)
(* it starts with, followed by one update of the raw boundaries in place;  *)
(* the samples, the number of bins and the steepness stay as they are.     *)
C21_StepIsForwardPassThenOneUpdate ==
    [][EpochStep =>
        /\ fwd' = call(raw_boundaries, steepness, data)
        /\ loss' = fwd'.loss
        /\ raw_boundaries' \in Updates(raw_boundaries, loss', total_loss')
        /\ DOMAIN raw_boundaries' = DOMAIN raw_boundaries
        /\ Len(raw_boundaries') = nbins' - 1
        /\ loss_history' = Append(loss_history, loss')
        /\ data' = data
        /\ nbins' = nbins
        /\ steepness' = steepness
      ]_vars

(* A step on samples with events has left parameters that differ from the  *)
(* ones the recorded forward pass was computed on.                         *)
C21_Witness ==
    /\ pc = "loop"
    /\ EpochRan
    /\ TotalEvents(data) > 0
    /\ ~IsNaN(loss)
    /\ ~HasNaN(raw_boundaries)
    /\ fwd # call(raw_boundaries, steepness, data)

---------------------------------------------------------------------------
(* Termination of the early-stopping loop.                                 *)

(* The position of main() moves on: to the loop for the next entry of      *)
(* gato_binning_options, by one epoch, to the restore, to the result.      *)
Advance ==
    \/ /\ pc = "start"
       /\ gato_binning_options # << >>
       /\ pc' = "loop"
       /\ epoch' = 0
    \/ /\ pc = "loop"
       /\ epoch < epochs
       /\ epoch' = epoch + 1
       /\ pc' \in {"loop", "after"}
    \/ /\ pc = "after"
       /\ pc' = "restored"
       /\ epoch' = epoch
    \/ /\ pc = "restored"
       /\ pc' = "start"
       /\ epoch' = epoch

(* main() is a sequential program: while its position can move on, it      *)
(* does.                                                                   *)
SpecTrainFair == SpecTrain /\ WF_<<pc, epoch>>(Advance)

(* C22: the loop ends: it runs at most epochs iterations, it goes on only  *)
(* while fewer than patience epochs in a row have failed to improve, it    *)
(* stops as soon as that count reaches patience, and the count stays       *)
(* between 0 and patience.                                                 *)
C22_EarlyStoppingLoopTerminates ==
    /\ [](/\ epoch <= epochs
          /\ 0 <= no_improvement_count
          /\ no_improvement_count <= patience
          /\ pc = "loop" => no_improvement_count < patience /\ epoch < epochs
          /\ pc = "after" => no_improvement_count = patience \/ epoch = epochs)
    /\ (pc = "loop" ~> pc = "after")

(* The loop was stopped by patience before the last epoch.                 *)
C22_Witness ==
    /\ pc = "after"
    /\ no_improvement_count = patience
    /\ epoch < epochs

---------------------------------------------------------------------------
(* Properties of the bookkeeping of the early-stopping loop.               *)

(* The bookkeeping at the end of an epoch.                                 *)
EndOfEpoch ==
    /\ best_loss = BestOf(loss_history)
    /\ no_improvement_count = SinceImprovement(loss_history)
    /\ (best_weights # << >>) <=>
           \E i \in DOMAIN loss_history : FLess(loss_history[i], Inf)
    /\ Len(loss_history) = epoch
    /\ Len(regularisation_history) = epoch
    /\ Len(boundary_history) = epoch

(* C23: at the end of every epoch best_loss is the lowest base loss        *)
(* recorded so far and has not gone up, no_improvement_count is the        *)
(* number of epochs since the last strict improvement, best_weights is     *)
(* set exactly if some base loss was below the initial float("inf"), and   *)
(* the three histories have one entry per executed epoch.                  *)
C23_EarlyStoppingBookkeeping ==
    [][EpochStep => EndOfEpoch' /\ best_loss' <= best_loss]_vars

(* Three epochs with a penalty term in the total loss: an improvement, an  *)
(* epoch without one, and a second improvement.                            *)
C23_Witness ==
    /\ pc = "loop"
    /\ lam # 0
    /\ Len(loss_history) = 3
    /\ ~HasNaN(loss_history)
    /\ loss_history[1] < loss_history[2]
    /\ loss_history[3] < loss_history[1]
    /\ regularisation # 0
    /\ no_improvement_count = 0

---------------------------------------------------------------------------
(* Properties of the yields of the hard assignment.                        *)

(* The total weight of the events of the processes in P.                   *)
WeightOf(d, P) ==
    SumFn([p \in P |-> SumFn([e \in DOMAIN d[p] |-> d[p][e].weight])])

(* C24: once the call has gone through all processes, every event has      *)
(* one raw bin, the signal yields add up to the total weight of the        *)
(* events of the processes whose name starts with "signal", the            *)
(* background yields to the total weight of all other events, and the      *)
(* returned significances are those of these yields.                       *)
C24_HardYieldsConserveWeight ==
    calls = 1 =>
        LET raw == RawBins
            S   == S_yields(model.n_cats, data, raw)
            B   == B_yields(model.n_cats, data, raw)
        IN  /\ \A pe \in EventsOf(data) :
                   raw[pe[1]][pe[2]] \in Bins(model.n_cats)
            /\ SumFn(S) = WeightOf(data, {p \in DOMAIN data : StartsWithSignal(p)})
            /\ SumFn(B) = WeightOf(data, {p \in DOMAIN data : ~StartsWithSignal(p)})
            /\ Returned => ret.significances = Significances(S, B)

(* A call on signal and background events that fall into different bins.   *)
C24_Witness ==
    /\ Returned
    /\ model.n_cats > 1
    /\ \E p, q \in DOMAIN data :
           /\ StartsWithSignal(p)
           /\ ~StartsWithSignal(q)
           /\ \E e \in DOMAIN data[p], f \in DOMAIN data[q] :
                  RawBins[p][e] # RawBins[q][f]

---------------------------------------------------------------------------
(* Properties of the significance proxy of the hard assignment.            *)

(* The position of raw bin r in the returned order.                        *)
PositionOf(r) == CHOOSE j \in DOMAIN ret.order : ret.order[j] = r

(* C25: every returned significance is a finite number that is not         *)
(* negative; it is 0 for a bin without signal, with or without events,     *)
(* and positive for a bin with signal, with or without background; hence   *)
(* every bin without signal comes before every bin with signal in the      *)
(* returned order.                                                         *)
C25_ProxyFiniteAndZeroSignalFirst ==
    Returned =>
        LET raw == RawBins
            S   == S_yields(model.n_cats, data, raw)
            B   == B_yields(model.n_cats, data, raw)
        IN  /\ \A i \in Bins(model.n_cats) :
                   /\ ~IsNaN(ret.significances[i])
                   /\ 0 <= ret.significances[i]
                   /\ ret.significances[i] < Inf
                   /\ S[i] = 0 => ret.significances[i] = 0
                   /\ S[i] > 0 => ret.significances[i] > 0
            /\ \A i, j \in Bins(model.n_cats) :
                   S[i] = 0 /\ S[j] > 0 => PositionOf(i) < PositionOf(j)

(* A returned order with a bin without any event at a higher raw index     *)
(* than a bin with signal and no background.                               *)
C25_Witness ==
    /\ Returned
    /\ \E i, j \in Bins(model.n_cats) :
           /\ j < i
           /\ S_yields(model.n_cats, data, RawBins)[j] > 0
           /\ B_yields(model.n_cats, data, RawBins)[j] = 0
           /\ \A pe \in EventsOf(data) : RawBins[pe[1]][pe[2]] # i
           /\ PositionOf(i) < PositionOf(j)

---------------------------------------------------------------------------
(* Properties of the yields of the 1-D forward pass.                       *)

(* The yield of bin i from the processes in P at raw boundaries raw.       *)
SoftYieldOf(P, raw, i) ==
    SumFn([p \in P |->
        SumFn([e \in DOMAIN data[p] |->
            soft_bin_weights(data[p][e].NN_output, raw, steepness)[i]
                * data[p][e].weight])])

(* C26: in a forward pass on parameters that are numbers, the signal       *)
(* yield of a bin is the sum of membership times weight over the events    *)
(* of the process "signal", the background yield the same sum over the     *)
(* events of all other processes, and all yields together add up to the    *)
(* total weight of all events.                                             *)
C26_SoftYieldsByRoleConserveWeight ==
    [][EpochStep /\ ~HasNaN(raw_boundaries) =>
        /\ \A i \in 1 .. nbins :
               /\ fwd'.S[i] = SoftYieldOf(DOMAIN data \cap {"signal"},
                                          raw_boundaries, i)
               /\ fwd'.B[i] = SoftYieldOf(DOMAIN data \ {"signal"},
                                          raw_boundaries, i)
        /\ SumFn(fwd'.S) + SumFn(fwd'.B) =
               (Weight1D(data, TRUE) + Weight1D(data, FALSE)) * One
      ]_vars

(* A forward pass on a signal and a background event of different weights  *)
(* that leaves both yields spread over more than one bin.                  *)
C26_Witness ==
    /\ EpochRan
    /\ ~IsNaN(loss)
    /\ data["signal"] # << >>
    /\ data["bkg1"] # << >>
    /\ data["signal"][1].weight # data["bkg1"][1].weight
    /\ \E i, j \in DOMAIN fwd.S :
           i # j /\ fwd.S[i] > 0 /\ fwd.S[j] > 0 /\ fwd.B[i] > 0 /\ fwd.B[j] > 0

---------------------------------------------------------------------------
(* Properties of the yields handed to the penalties of the 2-D example.    *)

(* Per-bin sums of squared weights of the processes in P, from the         *)
(* responsibilities of their events.                                       *)
YieldW2Of(P, i) ==
    SumFn([p \in P |->
        SumFn([e \in DOMAIN data[p] |->
            fwd.gamma[p][e][i] * data[p][e].weight * data[p][e].weight])])

(* C27: the yield and the squared-weight sum that the forward pass returns *)
(* for the penalties are those of the processes other than signal1 and     *)
(* signal2, they are 0 when there are no such events, and both penalties   *)
(* are evaluated on them.                                                  *)
C27_PenaltiesSeeBackgroundOnly ==
    (pc \in {"loop2d", "after2d"} /\ EpochRan /\ ~IsNaN(loss)) =>
        LET others == DOMAIN data \ {"signal1", "signal2"}
        IN  /\ \A i \in Bins(model.n_cats) :
                   /\ fwd.bkg_y[i] = YieldOf(others, i)
                   /\ fwd.bkg_w2[i] = YieldW2Of(others, i)
                   /\ (\A p \in others : data[p] = << >>) =>
                          fwd.bkg_y[i] = 0 /\ fwd.bkg_w2[i] = 0
            /\ penY = low_bkg_penalty(fwd.bkg_y, 5 * One, 1)
            /\ penU = high_bkg_uncertainty_penalty(fwd.bkg_w2, fwd.bkg_y, 200)

(* A step on both signals and background in which a bin holds signal and   *)
(* background and the squared weights differ from the weights.             *)
C27_Witness ==
    /\ pc \in {"loop2d", "after2d"}
    /\ EpochRan
    /\ ~IsNaN(loss)
    /\ \E i \in Bins(model.n_cats) :
           /\ fwd.sig1_y[i] > 0
           /\ fwd.sig2_y[i] > 0
           /\ fwd.bkg_y[i] > 0
           /\ fwd.bkg_w2[i] > fwd.bkg_y[i]

---------------------------------------------------------------------------
(* main() of the 2-D example on one sample mapping: a forward pass of the  *)
(* objective on it, then assign_bins_and_order(model, data_2d, reduce=True) *)
(* on the same processes.                                                  *)

(* Process names a caller may key the samples with.                        *)
RoleNames == {"signal1", "signal3", "bkg1"}

RoleSamples ==
    UNION { [P -> {<<ev>> : ev \in Events}] : P \in SUBSET RoleNames \ {{}} }

InitRoles ==
    /\ model \in Models
    /\ data \in RoleSamples
    /\ tieBreak = "lowFirst"
    /\ ret = NoRet
    /\ calls = 0
    /\ reduceArg = FALSE
    /\ fwd = NoFwd
    /\ OneDIdle
    /\ LoopIdle

(* model.call(tensor_data) inside train_step.                              *)
MainCall ==
    /\ calls = 0
    /\ fwd' = GATO_2D_call(model, data)
    /\ calls' = 1
    /\ UNCHANGED <<model, data, tieBreak, ret, reduceArg>>
    /\ UNCHANGED oneDVars
    /\ UNCHANGED loopVars

(* assign_bins_and_order(model, data_2d, reduce=True) after the loop.      *)
MainHarden ==
    /\ calls = 1
    /\ ret' = assign_bins_and_order(model, data, TRUE, tieBreak)
    /\ reduceArg' = TRUE
    /\ calls' = 2
    /\ UNCHANGED <<model, data, tieBreak, fwd>>
    /\ UNCHANGED oneDVars
    /\ UNCHANGED loopVars

NextRoles == MainCall \/ MainHarden

SpecRoles == InitRoles /\ [][NextRoles]_vars

(* C28: once the forward pass and the hardening have both run on the same  *)
(* samples, the hardened signal yield is positive exactly if a signal      *)
(* yield of the forward pass is, and likewise for the background: every    *)
(* process has the same role in both.                                      *)
C28_SameRoleInForwardPassAndHardener ==
    calls = 2 =>
        LET S == S_yields(model.n_cats, data, RawBins)
            B == B_yields(model.n_cats, data, RawBins)
        IN  /\ (\E i \in Bins(model.n_cats) : S[i] > 0)
                   <=> (\E i \in Bins(model.n_cats) :
                            fwd.sig1_y[i] > 0 \/ fwd.sig2_y[i] > 0)
            /\ (\E i \in Bins(model.n_cats) : B[i] > 0)
                   <=> (\E i \in Bins(model.n_cats) : fwd.bkg_y[i] > 0)

---------------------------------------------------------------------------
(* The component parameters assign_bins_and_order scores events with.      *)

(* The raw bin of event e of process p scored with the forward pass's log  *)
(* mixture weights and scale factors and with the locations locs.          *)
ScoredBin(p, e, locs) ==
    ArgMax(LogJoint(LogSoftmax(model.mixture_logits), locs,
                    get_scale_tril(model), data[p][e].NN_output))

(* softmax(raw means), per component.                                      *)
SoftmaxMeans == Table([i \in Bins(model.n_cats) |-> Softmax(model.means[i])])

(* C29: the raw bin returned for every event is the one scored with the    *)
(* forward pass's log mixture weights and scale factors and, with          *)
(* reduce=True, with the forward pass's locations, the first dim           *)
(* coordinates of softmax(raw means with a zero logit appended); with      *)
(* reduce=False, with the locations softmax(raw means).                    *)
C29_HardenerScoresWithForwardPassParameters ==
    Returned =>
        /\ reduceArg =>
               \A i \in Bins(model.n_cats) :
                   LET probs3 == Softmax(model.means[i] \o <<0>>)
                   IN  /\ CallLocs(model)[i] = <<probs3[1], probs3[2]>>
                       /\ Len(CallLocs(model)[i]) = dim
        /\ \A pe \in EventsOf(data) :
               ret.order[ret.bin_assignments[pe[1]][pe[2]]] =
                   ScoredBin(pe[1], pe[2],
                             IF reduceArg THEN CallLocs(model) ELSE SoftmaxMeans)

(* A call with reduce=True on a model of unequal mixture weights in which  *)
(* an event's raw bin is not the one the locations softmax(raw means)      *)
(* would give it.                                                          *)
C29_Witness ==
    /\ Returned
    /\ reduceArg
    /\ model.n_cats > 1
    /\ model.mixture_logits[1] # model.mixture_logits[0]
    /\ \E pe \in EventsOf(data) :
           ret.order[ret.bin_assignments[pe[1]][pe[2]]] #
               ScoredBin(pe[1], pe[2], SoftmaxMeans)

---------------------------------------------------------------------------
(* The effect of assign_bins_and_order on its arguments.                   *)

(* A step in which the call is made.                                       *)
HardenStep == calls = 0 /\ calls' = 1

(* C30: the call leaves the model's n_cats, mixture logits, means and      *)
(* scale factors and the sample mapping's processes, discriminant values   *)
(* and weights as they were, whether it returns or raises; what it returns *)
(* is built by the call: nothing was returned before, and afterwards there *)
(* is an assignment per event of every process, an order of all bins, a    *)
(* significance per bin and the inverse mapping of the order.              *)
C30_HardenerIsReadOnly ==
    [][HardenStep =>
        /\ model'.n_cats = model.n_cats
        /\ model'.mixture_logits = model.mixture_logits
        /\ model'.means = model.means
        /\ get_scale_tril(model') = get_scale_tril(model)
        /\ DOMAIN data' = DOMAIN data
        /\ \A p \in DOMAIN data :
               /\ Len(data'[p]) = Len(data[p])
               /\ \A e \in DOMAIN data[p] :
                      /\ data'[p][e].NN_output = data[p][e].NN_output
                      /\ data'[p][e].weight = data[p][e].weight
        /\ ret = NoRet
        /\ ret'.status = "ok" =>
               /\ DOMAIN ret'.bin_assignments = DOMAIN data
               /\ \A p \in DOMAIN data :
                      /\ DOMAIN ret'.bin_assignments[p] = DOMAIN data[p]
                      /\ \A e \in DOMAIN data[p] :
                             ret'.bin_assignments[p][e] \in Bins(model.n_cats)
               /\ DOMAIN ret'.order = Bins(model.n_cats)
               /\ Range(ret'.order) = Bins(model.n_cats)
               /\ DOMAIN ret'.significances = Bins(model.n_cats)
               /\ DOMAIN ret'.inv_mapping = Bins(model.n_cats)
               /\ \A k \in Bins(model.n_cats) :
                      ret'.inv_mapping[k] = ret'.order[k] ]_vars

(* A call with the default reduce=False that returned for two processes    *)
(* with events, a model of unequal mixture weights and a changed order of  *)
(* the bins.                                                               *)
C30_Witness ==
    /\ Returned
    /\ ~reduceArg
    /\ model.n_cats > 1
    /\ model.mixture_logits[1] # model.mixture_logits[0]
    /\ \A p \in ProcNames : p \in DOMAIN data /\ data[p] # << >>
    /\ ret.order[0] # 0
====
